---- MODULE Spec2Model ----
(***************************************************************************)
(* State-machine model of spotify-mcp: the spotipy-backed Client           *)
(* (spotify_api.py), the tool dispatcher handle_call_tool (server.py) and  *)
(* the credential store CredsManager (creds_manager.py).                   *)
(*                                                                         *)
(* Python values are modelled as strings: None is the string "<None>",     *)
(* the empty string is "", numbers are written as their decimal text.      *)
(***************************************************************************)
EXTENDS Integers, Sequences, FiniteSets, TLC

VARIABLES
    env,        \* os.environ: variable name -> value, None when unset
    file,       \* creds.json: Absent, Corrupt, or key -> JSON text
    creds,      \* CredsManager.creds
    last,       \* the last CredsManager operation: name, arguments, writes
    now,        \* int(time.time()), seconds since the process started
    cache,      \* the token_info held by Client.cache_handler
    sp_auth,    \* Client.sp._auth ("" stands for None)
    username,   \* Client.username
    issued,     \* access tokens the accounts service has issued so far
    loop,       \* the task the event loop is running, 0 when it is free
    task,       \* the handle_call_tool invocations in flight
    resp        \* the last response handed back to the transport

vars == <<env, file, creds, last, now, cache, sp_auth, username, issued,
          loop, task, resp>>

credsVars == <<file, creds, last>>
clientVars == <<now, cache, sp_auth, username, issued, loop, task, resp>>

-----------------------------------------------------------------------------
(* Bounds of the model *)

NumTasks == 2
\* the instants at which the clock is observed
Times == {0, 300, 3600, 3900}

Tasks == 1..NumTasks

-----------------------------------------------------------------------------
(* Python values *)

None == "<None>"

\* Python's True and False, as values a field that may be None can hold
PyBool(b) == IF b THEN "True" ELSE "False"

\* str(v), as an f-string renders a value
PyStr(v) == IF v = None THEN "None" ELSE v

Truthy(v) == v # None /\ v # ""

-----------------------------------------------------------------------------
(* Module-level configuration of spotify_api.py *)

CLIENT_ID == env["SPOTIFY_CLIENT_ID"]
CLIENT_SECRET == env["SPOTIFY_CLIENT_SECRET"]
ACCESS_TOKEN == env["SPOTIFY_ACCESS_TOKEN"]
REFRESH_TOKEN == env["SPOTIFY_REFRESH_TOKEN"]
DEFAULT_DEVICE_ID == env["SPOTIFY_DEVICE_ID"]

\* expires_at - now below this margin counts as expired (is_token_expired)
ExpiryMargin == 60
\* lifetime the client assumes for a supplied access token
AssumedValidFor == 300
\* lifetime of an access token issued by a refresh exchange
ExpiresIn == 3600

\* Client.__init__: the refresh-token branch builds an auth manager and a
\* memory cache; the access-token-only branch builds neither.
HasAuthManager == Truthy(REFRESH_TOKEN)
DirectToken == ~Truthy(REFRESH_TOKEN) /\ Truthy(ACCESS_TOKEN)

\* SpotifyOAuth(client_id=..., client_secret=...) raises when either is
\* missing; Client.__init__ re-raises and server.py stops at its import.
\* spotipy.Spotify(auth=ACCESS_TOKEN) takes neither.
MissingIdentity == ~Truthy(CLIENT_ID) \/ ~Truthy(CLIENT_SECRET)
ConstructionFails == ~DirectToken /\ MissingIdentity

\* the value of loop in a process that never got to serve
NoLoop == -1
InitialLoop == IF ConstructionFails THEN NoLoop ELSE 0

InitialAccessToken == IF Truthy(ACCESS_TOKEN) THEN ACCESS_TOKEN ELSE ""

\* the grace period of devices.py, an hour
InitialExpiresAtHour(t) ==
    IF Truthy(ACCESS_TOKEN) THEN t + ExpiresIn ELSE t - 1

InitialExpiresAt(t) ==
    IF Truthy(ACCESS_TOKEN) THEN t + AssumedValidFor ELSE t - 1

InitialCache(t) ==
    [access_token |-> InitialAccessToken,
     refresh_token |-> IF Truthy(REFRESH_TOKEN) THEN REFRESH_TOKEN ELSE "",
     expires_at |-> IF HasAuthManager THEN InitialExpiresAt(t) ELSE 0]

InitialSpAuth == IF DirectToken THEN ACCESS_TOKEN ELSE ""

\* SpotifyOAuth.is_token_expired, as called by auth_ok and validate_token
Expired(token_info) == token_info.expires_at - now < ExpiryMargin

\* a check that never finds the cached token expired
AuthOkAlways == TRUE

\* auth_ok, managed-token branch
AuthOkManaged == ~Expired(cache)

\* the access token the accounts service issues on the k-th exchange
IssuedToken(k) == "at" \o ToString(k)

RefreshedTokenInfo ==
    [access_token |-> IssuedToken(issued + 1),
     refresh_token |-> cache.refresh_token,
     expires_at |-> now + ExpiresIn]

-----------------------------------------------------------------------------------------------------------------------------------------------------
(* The tool surface and the Client operations behind it *)

Ops == {"Playback.get", "Queue.add", "Playlist.add_tracks"}

\* the arguments handle_call_tool reads; None stands for an absent key
ArgNames == {"spotify_uri", "num_skips", "track_id", "playlist_id", "name",
             "description", "item_uri", "query"}

\* a track_ids argument: absent, a list, or a string
NoTrackIds == [kind |-> "none", items |-> <<>>, text |-> ""]
ListValue(items) == [kind |-> "list", items |-> items, text |-> ""]
StrValue(text) == [kind |-> "str", items |-> <<>>, text |-> text]
\* a number, as json.loads gives for the text of a number
NumberValue(text) == [kind |-> "number", items |-> <<>>, text |-> text]

NoArguments == [args |-> [k \in ArgNames |-> None], track_ids |-> NoTrackIds]

\* json.loads of a track_ids string: the decoded list, or JSONDecodeError
TrackIdsJson == "[\"id1\",\"id2\"]"
NumberJson == "123"
JsonDecodes(text) == text \in {TrackIdsJson, NumberJson}

\* a decoder that wraps the text in a list
JsonLoadsTrackIdsWrap(text) == ListValue(<<text>>)

JsonLoadsTrackIds(text) ==
    IF text = TrackIdsJson THEN ListValue(<<"id1", "id2">>) ELSE NumberValue(text)

\* Python truth of a track_ids value
TruthyTrackIds(v) ==
    \/ v.kind = "list" /\ v.items # <<>>
    \/ v.kind = "str" /\ v.text # ""
    \/ v.kind = "number" /\ v.text # "0"

\* a count that skips once when asked for none
NumSkipsAtLeastOne(v) == CASE v = None -> 1 [] v = "0" -> 1 [] v = "1" -> 1 [] v = "2" -> 2

\* int(arguments.get("num_skips", 1))
NumSkips(v) == CASE v = None -> 1 [] v = "0" -> 0 [] v = "1" -> 1 [] v = "2" -> 2

\* the steps of the Client method an action is routed to.  "validate" and
\* "ensure_username" are the decorators, "check_..." and "split_item_uri"
\* are statements of the method that can raise, the others are spotipy
\* requests.
Program(op, arguments) ==
    CASE op = "Playback.get" -> <<"current_user_playing_track">>
      [] op = "Playback.start" ->
            <<"validate">>
            \o (IF ~Truthy(arguments.args["spotify_uri"])
                THEN <<"is_track_playing", "get_current_track">> ELSE <<>>)
            \o <<"start_playback">>
      [] op = "Playback.pause" -> <<"validate", "current_playback", "pause_playback">>
      [] op = "Playback.skip" ->
            [i \in 1..NumSkips(arguments.args["num_skips"]) |-> "next_track"]
      [] op = "Search" -> <<"validate", "ensure_username", "search">>
      [] op = "Queue.add" -> <<"validate", "add_to_queue">>
      [] op = "Queue.get" -> <<"validate", "queue", "current_user_playing_track">>
      [] op = "GetInfo" -> <<"split_item_uri", "track">>
      [] op = "Playlist.get" -> <<"current_user_playlists">>
      [] op = "Playlist.get_tracks" -> <<"ensure_username", "playlist">>
      [] op = "Playlist.add_tracks" ->
            <<"ensure_username", "check_playlist_id", "check_track_ids",
              "playlist_add_items">>
      [] op = "Playlist.remove_tracks" ->
            <<"ensure_username", "check_playlist_id", "check_track_ids",
              "playlist_remove_all_occurrences_of_items">>
      [] op = "Playlist.change_details" ->
            <<"ensure_username", "check_playlist_id", "playlist_change_details">>
      [] op = "Playlist.create" ->
            <<"ensure_username", "check_name", "create_current_user",
              "user_playlist_create">>

Requests == {"current_user_playing_track", "add_to_queue", "playlist_add_items",
             "current_user", "devices", "devices_candidate", "probe",
             "is_track_playing", "get_current_track", "start_playback",
             "current_playback", "pause_playback", "next_track", "search",
             "queue", "track", "current_user_playlists", "playlist",
             "playlist_remove_all_occurrences_of_items",
             "playlist_change_details", "create_current_user",
             "user_playlist_create"}

LocalChecks == {"check_playlist_id", "check_track_ids", "check_name",
                "split_item_uri"}

\* requests whose exceptions the Client method logs and drops
Swallowed == {"playlist_add_items", "playlist_remove_all_occurrences_of_items",
              "playlist_change_details"}

\* requests that name a target device
PlaybackRequests == {"start_playback", "pause_playback", "add_to_queue",
                     "next_track"}

SuccessText(op) ==
    CASE op = "Playback.get" -> "track"
      [] op = "Playback.start" -> "Playback starting."
      [] op = "Playback.pause" -> "Playback paused."
      [] op = "Playback.skip" -> "Skipped to next track."
      [] op = "Search" -> "search_results"
      [] op = "Queue.add" -> "Track added to queue."
      [] op = "Queue.get" -> "queue"
      [] op = "GetInfo" -> "item_info"
      [] op = "Playlist.get" -> "playlists"
      [] op = "Playlist.get_tracks" -> "tracks"
      [] op = "Playlist.add_tracks" -> "Tracks added to playlist."
      [] op = "Playlist.remove_tracks" -> "Tracks removed from playlist."
      [] op = "Playlist.change_details" -> "Playlist details changed."
      [] op = "Playlist.create" -> "playlist"

SpotifyErrorText == "An error occurred with the Spotify Client"
UnexpectedErrorText == "Unexpected error occurred"

\* str(e) of the exceptions the Client raises itself, by cause
ErrorDetail(cause) ==
    CASE cause = "no_device" -> "No active device. Is Spotify open?"
      [] cause = "no_playlist_id" -> "No playlist ID provided."
      [] cause = "no_track_ids" -> "No track IDs provided."
      [] cause = "no_name" -> "Playlist name is required."
      [] cause = "nothing_to_resume" ->
            "No track_id provided and no current playback to resume."
      [] OTHER -> None

\* the Web API's answers: success, 401 for the token, another non-success status
Outcomes == {"ok", "unauthorized", "error"}

\* the answer of the playing-track endpoints: a track that is playing, a
\* track that is paused, or nothing (no session, or not a track)
PlayAnswers == {"playing", "paused", "nothing"}

DeviceLists ==
    { <<>>,
      <<[id |-> "A", is_active |-> FALSE]>>,
      <<[id |-> "A", is_active |-> FALSE], [id |-> "B", is_active |-> TRUE]>> }

AnyActive(devs) == \E i \in 1..Len(devs) : devs[i].is_active

FirstActive(devs) ==
    devs[CHOOSE i \in 1..Len(devs) :
            devs[i].is_active /\ \A j \in 1..(i - 1) : ~devs[j].is_active]

\* a choice that falls back to the last device of the list
CandidateDeviceLast(devs) ==
    IF AnyActive(devs) THEN FirstActive(devs) ELSE devs[Len(devs)]

\* _get_candidate_device, on a non-empty list
CandidateDevice(devs) == IF AnyActive(devs) THEN FirstActive(devs) ELSE devs[1]

\* name[:7] and name[7:] of a tool name
ToolName(head, rest) == [head |-> head, rest |-> rest]

NoCall == [name |-> ToolName(None, None), action |-> None, arguments |-> NoArguments]

\* pc: idle, pending, run, exchange, inflight; call: the tool call; todo: the
\* steps left; tok: the token of the request in flight; via: who issued the
\* exchange; device: the device keyword set by validate; seen: the device
\* list the keyword was decided on; playing: the answer is_track_playing
\* got; current: the answer get_current_track got in start_playback; kwargs:
\* the arguments the Client method is called with; cause: the last failure or
\* early exit met by the invocation; sent: the requests the invocation has
\* put on the wire, in order; applied: those the Web API answered with
\* success; auth: what auth_ok returned to validate, until validate goes on to
\* the device list
IdleTask ==
    [pc |-> "idle", op |-> None, todo |-> <<>>, tok |-> "", via |-> None,
     device |-> None, cause |-> None, call |-> NoCall, seen |-> <<>>,
     playing |-> None, current |-> None, kwargs |-> NoArguments,
     sent |-> <<>>, applied |-> <<>>, auth |-> None]

\* shape: what handle_call_tool handed back: a list of one block, None, or
\* an exception
NoResp == [text |-> None, cause |-> None, shape |-> None]

\* the accounts/Web API rejects an empty token and an issued token past its
\* expiry; the validity of an operator-supplied token is not known
ServerRejects(tok) ==
    \/ tok = ""
    \/ /\ HasAuthManager
       /\ tok = cache.access_token
       /\ tok # InitialAccessToken
       /\ now >= cache.expires_at

\* a token the Web API cannot reject as unauthorized: one the accounts
\* service issued that has not reached its expiry
ServerAccepts(tok) ==
    /\ HasAuthManager
    /\ tok = cache.access_token
    /\ tok # InitialAccessToken
    /\ now < cache.expires_at

\* a request carries an empty token, or one at or past its cached expiry
Stale(tok) ==
    \/ tok = ""
    \/ HasAuthManager /\ tok = cache.access_token /\ now >= cache.expires_at

-----------------------------------------------------------------------------
(* handle_call_tool: one coroutine per tool call, run by one event loop.   *)
(* The coroutine body holds no await: every Client call is a blocking      *)
(* call, so the loop runs one invocation from entry to return.             *)

\* what handle_call_tool does before it calls the Client: "raised" for the
\* assertion on the tool name, "none" when no case of the match returns,
\* "text" for a message returned at once, "run" for a Client call
Routed(kind, op, text, cause, arguments) ==
    [kind |-> kind, op |-> op, text |-> text, cause |-> cause,
     arguments |-> arguments]

RunOp(op, call) == Routed("run", op, None, None, call.arguments)
TextOnly(text, cause, call) == Routed("text", None, text, cause, call.arguments)

\* track_ids = json.loads(track_ids) when it is a string
RoutePlaylistTracks(op, call) ==
    LET ids == call.arguments.track_ids IN
    IF ids.kind = "str"
    THEN IF JsonDecodes(ids.text)
         THEN Routed("run", op, None, None,
                     [call.arguments EXCEPT !.track_ids = JsonLoadsTrackIds(ids.text)])
         ELSE TextOnly("Error: track_ids must be a list or a valid JSON array.",
                       "bad_track_ids", call)
    ELSE RunOp(op, call)

\* a text that does not say which action it was given
UnknownQueueActionBare(action) == "Unknown queue action."

\* f"Unknown queue action: {action}. Supported actions are: add, remove, and get."
UnknownQueueAction(action) ==
    "Unknown queue action: " \o PyStr(action)
        \o ". Supported actions are: add, remove, and get."

\* f"Unknown playlist action: {action}." "Supported actions are: ..."
UnknownPlaylistAction(action) ==
    "Unknown playlist action: " \o PyStr(action)
        \o ".Supported actions are: get, get_tracks, add_tracks, remove_tracks, change_details, create."

RouteQueue(call) ==
    LET action == call.action IN
    CASE action = "add" ->
            IF ~Truthy(call.arguments.args["track_id"])
            THEN TextOnly("track_id is required for add action", "missing_argument", call)
            ELSE RunOp("Queue.add", call)
      [] action = "get" -> RunOp("Queue.get", call)
      [] OTHER -> TextOnly(UnknownQueueAction(action), "unknown_action", call)

RoutePlayback(call) ==
    LET action == call.action IN
    IF action \in {"get", "start", "pause", "skip"}
    THEN RunOp("Playback." \o action, call)
    ELSE Routed("none", None, None, "no_case", call.arguments)

RoutePlaylist(call) ==
    LET action == call.action
        args == call.arguments.args
    IN
    CASE action = "get" -> RunOp("Playlist.get", call)
      [] action = "get_tracks" ->
            IF ~Truthy(args["playlist_id"])
            THEN TextOnly("playlist_id is required for get_tracks action.",
                          "missing_argument", call)
            ELSE RunOp("Playlist.get_tracks", call)
      [] action = "add_tracks" -> RoutePlaylistTracks("Playlist.add_tracks", call)
      [] action = "remove_tracks" -> RoutePlaylistTracks("Playlist.remove_tracks", call)
      [] action = "change_details" ->
            IF ~Truthy(args["playlist_id"])
            THEN TextOnly("playlist_id is required for change_details action.",
                          "missing_argument", call)
            ELSE IF ~Truthy(args["name"]) /\ ~Truthy(args["description"])
            THEN TextOnly("At least one of name, description, public, or collaborative is required.",
                          "missing_argument", call)
            ELSE RunOp("Playlist.change_details", call)
      [] action = "create" ->
            IF ~Truthy(args["name"])
            THEN TextOnly("name is required for create action.", "missing_argument", call)
            ELSE RunOp("Playlist.create", call)
      [] OTHER -> TextOnly(UnknownPlaylistAction(action), "unknown_action", call)

Route(call) ==
    IF call.name.head # "Spotify"
    THEN Routed("raised", None, None, "assertion", call.arguments)
    ELSE CASE call.name.rest = "Playback" -> RoutePlayback(call)
           [] call.name.rest = "Search" -> RunOp("Search", call)
           [] call.name.rest = "Queue" -> RouteQueue(call)
           [] call.name.rest = "GetInfo" -> RunOp("GetInfo", call)
           [] call.name.rest = "Playlist" -> RoutePlaylist(call)
           [] OTHER -> TextOnly("Unknown tool", "unknown_tool", call)

LoopFree == loop = 0

Step(t) == task[t].todo[1]
HasStep(t) == task[t].pc = "run" /\ loop = t /\ task[t].todo # <<>>

\* the transport delivers a tool call
Deliver(t, call) ==
    /\ loop # NoLoop
    /\ task[t].pc = "idle"
    /\ task' = [task EXCEPT ![t] = [IdleTask EXCEPT !.pc = "pending", !.call = call]]
    /\ UNCHANGED <<env, credsVars, now, cache, sp_auth, username, issued,
                   loop, resp>>

\* json.dumps of the current track, or the text for none
ResultText(inv) ==
    IF inv.op = "Playback.get" /\ inv.playing = "nothing"
    THEN "No track playing."
    ELSE SuccessText(inv.op)

\* the coroutine returns its single content block
Return(t, text, inv) ==
    /\ resp' = [text |-> text, cause |-> inv.cause, shape |-> "list"]
    /\ task' = [task EXCEPT ![t] = IdleTask]
    /\ loop' = 0

\* the step at the head of the program is complete
Advance(t, inv) ==
    IF Tail(inv.todo) = <<>>
    THEN Return(t, ResultText(inv), [inv EXCEPT !.todo = <<>>])
    ELSE /\ task' = [task EXCEPT ![t] = [inv EXCEPT !.pc = "run", !.todo = Tail(inv.todo)]]
         /\ UNCHANGED <<loop, resp>>

\* the event loop starts running a delivered call: the handler returns at
\* once, raises, or enters the Client method
Begin(t) ==
    /\ LoopFree
    /\ task[t].pc = "pending"
    /\ LET r == Route(task[t].call) IN
       IF r.kind = "run"
       THEN LET inv == [task[t] EXCEPT !.pc = "run", !.op = r.op,
                                       !.kwargs = r.arguments,
                                       !.todo = Program(r.op, r.arguments)]
            IN IF inv.todo = <<>>
               THEN Return(t, SuccessText(r.op), inv)
               ELSE /\ loop' = t
                    /\ task' = [task EXCEPT ![t] = inv]
                    /\ resp' = resp
       ELSE /\ resp' = [text |-> r.text, cause |-> r.cause,
                        shape |-> IF r.kind = "text" THEN "list" ELSE r.kind]
            /\ task' = [task EXCEPT ![t] = IdleTask]
            /\ loop' = loop
    /\ UNCHANGED <<env, credsVars, now, cache, sp_auth, username, issued>>

\* utils.ensure_username: set_username() when no username is known yet
EnsureUsername(t) ==
    /\ HasStep(t) /\ Step(t) = "ensure_username"
    /\ task' = [task EXCEPT ![t].todo =
                  IF username = None
                  THEN <<"validate", "current_user">> \o Tail(task[t].todo)
                  ELSE Tail(task[t].todo)]
    /\ UNCHANGED <<env, credsVars, now, cache, sp_auth, username, issued,
                   loop, resp>>

\* utils.validate, authentication part: if not auth_ok(): auth_refresh()
Validate(t) ==
    /\ HasStep(t) /\ Step(t) = "validate"
    /\ IF DirectToken
       THEN \* auth_ok probes with current_user(); auth_refresh cannot refresh
            /\ task' = [task EXCEPT ![t].todo = <<"probe", "devices">> \o Tail(task[t].todo),
                                    ![t].device = None, ![t].seen = <<>>]
       ELSE IF AuthOkManaged
       THEN /\ task' = [task EXCEPT ![t].todo = <<"devices">> \o Tail(task[t].todo),
                                    ![t].device = None, ![t].seen = <<>>,
                                    ![t].auth = PyBool(TRUE)]
       ELSE \* auth_refresh: validate_token finds the token expired and
            \* exchanges the refresh token
            /\ task' = [task EXCEPT ![t].pc = "exchange", ![t].via = "auth_refresh",
                                    ![t].device = None, ![t].seen = <<>>,
                                    ![t].auth = PyBool(FALSE)]
    /\ UNCHANGED <<env, credsVars, now, cache, sp_auth, username, issued, loop,
                   resp>>

\* the statements of a Client method that raise before its request
CheckFails(step, arguments) ==
    CASE step = "check_playlist_id" -> ~Truthy(arguments.args["playlist_id"])
      [] step = "check_track_ids" -> ~TruthyTrackIds(arguments.track_ids)
      [] step = "check_name" -> ~Truthy(arguments.args["name"])
      [] step = "split_item_uri" -> arguments.args["item_uri"] = None

CheckCause(step) ==
    CASE step = "check_playlist_id" -> "no_playlist_id"
      [] step = "check_track_ids" -> "no_track_ids"
      [] step = "check_name" -> "no_name"
      [] step = "split_item_uri" -> "bad_item_uri"

\* a ValueError (AttributeError for item_uri.split) reaches the handler
Check(t) ==
    /\ HasStep(t) /\ Step(t) \in LocalChecks
    /\ IF CheckFails(Step(t), task[t].kwargs)
       THEN Return(t, UnexpectedErrorText, [task[t] EXCEPT !.cause = CheckCause(Step(t))])
       ELSE Advance(t, task[t])
    /\ UNCHANGED <<env, credsVars, now, cache, sp_auth, username, issued>>

\* requests that take the list of track ids
ItemRequests == {"playlist_add_items", "playlist_remove_all_occurrences_of_items"}

\* spotipy iterates over the items before it sends: a number raises
\* TypeError, inside the try block of the Client method
ItemsRaise(t) == Step(t) \in ItemRequests /\ task[t].kwargs.track_ids.kind = "number"

\* spotipy sends a request: _auth when set, else the auth manager's token,
\* refreshed first when it is expired
Send(t) ==
    /\ HasStep(t) /\ Step(t) \in Requests
    /\ IF ItemsRaise(t)
       THEN Advance(t, [task[t] EXCEPT !.cause = "type_error"])
       ELSE /\ IF sp_auth # ""
               THEN /\ task' = [task EXCEPT ![t].pc = "inflight", ![t].tok = sp_auth,
                                            ![t].sent = Append(@, Step(t)),
                                            ![t].auth = None]
               ELSE IF Expired(cache)
               THEN /\ task' = [task EXCEPT ![t].pc = "exchange", ![t].via = "library",
                                            ![t].auth = None]
               ELSE /\ task' = [task EXCEPT ![t].pc = "inflight",
                                            ![t].tok = cache.access_token,
                                            ![t].sent = Append(@, Step(t)),
                                            ![t].auth = None]
            /\ UNCHANGED <<loop, resp>>
    /\ UNCHANGED <<env, credsVars, now, cache, sp_auth, username, issued>>

\* the refresh exchange succeeds
ExchangeOk(t) ==
    /\ loop = t /\ task[t].pc = "exchange"
    /\ cache' = RefreshedTokenInfo
    /\ issued' = issued + 1
    /\ IF task[t].via = "auth_refresh"
       THEN \* refreshed_token != token: pin the new token on the client
            /\ sp_auth' = RefreshedTokenInfo.access_token
            /\ task' = [task EXCEPT ![t].pc = "run",
                                    ![t].todo = <<"devices">> \o Tail(task[t].todo)]
       ELSE /\ sp_auth' = sp_auth
            /\ task' = [task EXCEPT ![t].pc = "inflight",
                                    ![t].tok = RefreshedTokenInfo.access_token,
                                    ![t].sent = Append(@, Step(t))]
    /\ UNCHANGED <<env, credsVars, now, username, loop, resp>>

\* the refresh exchange raises (network error, revoked refresh token)
ExchangeFails(t) ==
    /\ loop = t /\ task[t].pc = "exchange"
    /\ LET inv == [task[t] EXCEPT !.cause = "refresh_failed"] IN
       IF task[t].via = "library" /\ Step(t) \in Swallowed
       THEN Advance(t, inv)
       ELSE Return(t, UnexpectedErrorText, inv)
    /\ UNCHANGED <<env, credsVars, now, cache, sp_auth, username, issued>>

\* a check that never finds a playing track
IsTrackPlayingNever(play) == FALSE

\* is_track_playing: the current item is a track and is_playing is true
IsTrackPlaying(play) == play = "playing"

\* a start_playback that always finds something to resume
NothingToResumeNever(play) == FALSE

\* start_playback, no URI: "if not self.get_current_track()"
NothingToResume(play) == play = "nothing"

\* a pause that does not look at the playback state
IsPlayingAlways(play) == TRUE

\* pause_playback: "if playback and playback.get('is_playing')"
IsPlaying(play) == play = "playing"

\* the handler that catches what a failed request raises: SpotifyException
\* for a non-success status, the generic one for a connection failure
FailureText(outcome) ==
    IF outcome = "network" THEN UnexpectedErrorText ELSE SpotifyErrorText

\* the Web API answers the request in flight
Receive(t, outcome, devs, play) ==
    /\ loop = t /\ task[t].pc = "inflight"
    /\ ServerRejects(task[t].tok) => outcome \in {"unauthorized", "network"}
    /\ ServerAccepts(task[t].tok) => outcome # "unauthorized"
    /\ LET step == Step(t)
           inv == IF outcome = "ok"
                  THEN [task[t] EXCEPT !.applied = Append(@, step)]
                  ELSE IF step # "probe"
                  THEN [task[t] EXCEPT !.cause = outcome]
                  ELSE task[t]
       IN
       CASE step = "probe" ->
              \* auth_ok returns True, or False from its inner except
              /\ Advance(t, [inv EXCEPT !.auth = PyBool(outcome = "ok")])
              /\ UNCHANGED username
         [] step = "devices" /\ outcome = "ok" ->
              /\ UNCHANGED username
              /\ IF AnyActive(devs)
                 THEN Advance(t, [inv EXCEPT !.seen = devs])
                 ELSE /\ task' = [task EXCEPT ![t] =
                            [inv EXCEPT !.pc = "run",
                                        !.todo = <<"devices_candidate">> \o Tail(inv.todo)]]
                      /\ UNCHANGED <<loop, resp>>
         [] step = "devices_candidate" /\ outcome = "ok" ->
              /\ UNCHANGED username
              /\ IF devs = <<>>
                 THEN Return(t, UnexpectedErrorText, [inv EXCEPT !.cause = "no_device"])
                 ELSE Advance(t, [inv EXCEPT !.device = CandidateDevice(devs).id,
                                             !.seen = devs])
         [] step = "current_user" /\ outcome = "ok" ->
              /\ username' = "user"
              /\ Advance(t, inv)
         [] step = "is_track_playing" /\ outcome = "ok" ->
              /\ UNCHANGED username
              /\ IF IsTrackPlaying(play)
                 THEN Return(t, SuccessText(inv.op),
                             [inv EXCEPT !.cause = "already_playing"])
                 ELSE Advance(t, [inv EXCEPT !.playing = play])
         [] step = "get_current_track" /\ outcome = "ok" ->
              /\ UNCHANGED username
              /\ IF NothingToResume(play)
                 THEN Return(t, UnexpectedErrorText,
                             [inv EXCEPT !.cause = "nothing_to_resume"])
                 ELSE Advance(t, [inv EXCEPT !.current = play])
         [] step = "current_playback" /\ outcome = "ok" ->
              /\ UNCHANGED username
              /\ IF IsPlaying(play)
                 THEN Advance(t, [inv EXCEPT !.playing = play])
                 ELSE Advance(t, [inv EXCEPT !.todo = Tail(inv.todo)])
         [] step = "current_user_playing_track" /\ outcome = "ok" ->
              /\ UNCHANGED username
              /\ Advance(t, [inv EXCEPT !.playing = play])
         [] step \in Swallowed /\ outcome # "ok" ->
              /\ Advance(t, inv) /\ UNCHANGED username
         [] OTHER ->
              /\ UNCHANGED username
              /\ IF outcome = "ok"
                 THEN Advance(t, inv)
                 ELSE Return(t, FailureText(outcome), inv)
    /\ UNCHANGED <<env, credsVars, now, cache, sp_auth, issued>>

\* the device_id a playback request is sent with: device.get('id') if device
\* else DEFAULT_DEVICE_ID; skip_track always sends DEFAULT_DEVICE_ID
DeviceId(t) ==
    IF Step(t) # "next_track" /\ task[t].device # None
    THEN task[t].device
    ELSE DEFAULT_DEVICE_ID

\* spotify_uri.startswith('spotify:track:')
IsTrackUri(u) == u \in {"spotify:track:x"}

\* the uris and context_uri start_playback sends for a spotify_uri: the test
\* is "is not None", so an empty string is sent as the context
StartPlaybackBody(u) ==
    IF u # None
    THEN IF IsTrackUri(u)
         THEN [uris |-> <<u>>, context_uri |-> None]
         ELSE [uris |-> None, context_uri |-> u]
    ELSE [uris |-> None, context_uri |-> None]

\* the device the Web API acts on: the one named, else the active one
RemoteTarget(device_id, devs) ==
    IF device_id # None THEN device_id
    ELSE IF AnyActive(devs) THEN FirstActive(devs).id
    ELSE None

\* the payloads an answer to the request in flight can carry: a device list
\* for the device endpoint, a playback state for the playing-track endpoints
DeviceSteps == {"devices", "devices_candidate"}
PlaySteps == {"is_track_playing", "get_current_track", "current_playback",
              "current_user_playing_track"}
InFlightStep(t) == IF task[t].pc = "inflight" THEN Step(t) ELSE None
ListsFor(t, lists) == IF InFlightStep(t) \in DeviceSteps THEN lists ELSE {<<>>}
PlaysFor(t) == IF InFlightStep(t) \in PlaySteps THEN PlayAnswers ELSE {"nothing"}

\* time passes between invocations (a request in flight is bounded by the
\* HTTP client's timeout, which is far below the expiry margin)
Tick(d) ==
    /\ LoopFree
    /\ d > now
    /\ now' = d
    /\ UNCHANGED <<env, credsVars, cache, sp_auth, username, issued, loop,
                   task, resp>>

-----
(* CredsManager (creds_manager.py) *)

Keys == {"client_id", "client_secret", "redirect_uri", "access_token",
         "refresh_token", "device_name", "token_expires_at"}

\* env_mapping of _load_credentials: token_expires_at has no variable
EnvMapping ==
    [k \in Keys \ {"token_expires_at"} |->
        CASE k = "client_id" -> "SPOTIFY_CLIENT_ID"
          [] k = "client_secret" -> "SPOTIFY_CLIENT_SECRET"
          [] k = "redirect_uri" -> "SPOTIFY_REDIRECT_URI"
          [] k = "access_token" -> "SPOTIFY_ACCESS_TOKEN"
          [] k = "refresh_token" -> "SPOTIFY_REFRESH_TOKEN"
          [] k = "device_name" -> "SPOTIFY_DEVICE_NAME"]

\* the values a field of the record takes in the model
Numbers == {"100", "200"}
Strings == {"", "env", "file", "tok2", "ref2", "speaker", "id", "secret",
            "at0", "rt0"}
PyValues == {None} \cup Strings \cup Numbers

\* json.dump of one value: None is null, a number its digits, a string quoted
JsonText ==
    [v \in PyValues |->
        IF v = None THEN "null"
        ELSE IF v \in Numbers THEN v
        ELSE "\"" \o v \o "\""]

JsonDumps(v) == JsonText[v]

\* json.load of one value
JsonLoads(text) == CHOOSE v \in PyValues : JsonDumps(v) = text

NullBody == [k \in Keys |-> "null"]
AbsentFile == [state |-> "absent", body |-> NullBody]
CorruptFile == [state |-> "corrupt", body |-> NullBody]
\* the configuration directory itself is missing
NoDirectory == [state |-> "nodir", body |-> NullBody]

\* a file cut short: its text holds values but json.load rejects it
TruncatedFile == [state |-> "corrupt", body |-> [k \in Keys |-> "\"file\""]]

\* a reader that takes what it finds in a file json.load rejects
FileGetLenient(f, k) ==
    IF f.state \in {"json", "corrupt"} THEN JsonLoads(f.body[k]) ELSE None

\* file_creds.get(key): the decoded value, None for a missing or null key
FileGet(f, k) == IF f.state = "json" THEN JsonLoads(f.body[k]) ELSE None

\* os.getenv(env_var) when it is truthy, for a key env_mapping names
EnvFallback(e, k) ==
    IF k \in DOMAIN EnvMapping /\ Truthy(e[EnvMapping[k]])
    THEN e[EnvMapping[k]]
    ELSE None

\* the environment first, then the file
LoadCredentialsEnvFirst(f, e) ==
    [k \in Keys |->
        IF EnvFallback(e, k) # None THEN EnvFallback(e, k) ELSE FileGet(f, k)]

\* _load_credentials: the file first, then the environment for what is None
LoadCredentials(f, e) ==
    [k \in Keys |->
        IF FileGet(f, k) # None THEN FileGet(f, k) ELSE EnvFallback(e, k)]

\* a dump that writes only the fields that are truthy
DumpedFileTruthy(c) ==
    [state |-> "json",
     body |-> [k \in Keys |-> IF Truthy(c[k]) THEN JsonDumps(c[k]) ELSE "null"]]

\* json.dump(self.creds, f, indent=2)
DumpedFile(c) == [state |-> "json", body |-> [k \in Keys |-> JsonDumps(c[k])]]

\* what save_credentials leaves on disk: the dump; the old file when open()
\* fails; a truncated file when the write fails after open()
WriteOutcomes == {"ok", "open_fails", "write_fails"}

\* open(self.creds_file, 'w') cannot succeed in a directory that is missing:
\* save_credentials does not create it
CanWrite(f, outcome) == f.state = "nodir" => outcome = "open_fails"

\* a save that leaves the write for later
FileAfterSaveDeferred(c, f, outcome) == f

FileAfterSave(c, f, outcome) ==
    CASE outcome = "ok" -> DumpedFile(c)
      [] outcome = "open_fails" -> f
      [] outcome = "write_fails" -> CorruptFile

\* a save that lets the failure of the write reach its caller
SaveRaisesOnFailure(outcome) == outcome # "ok"

\* save_credentials wraps the write in try/except Exception and only logs
SaveRaises(outcome) == FALSE

\* an update that keeps the replaced access token as the refresh token
UpdatedTokensRotate(c, a, r, e) ==
    [c EXCEPT !["access_token"] = IF a # None THEN a ELSE @,
              !["refresh_token"] = IF r # None THEN r
                                   ELSE IF a # None /\ c["access_token"] # None
                                        THEN c["access_token"] ELSE @,
              !["token_expires_at"] = IF e # None THEN e ELSE @]

\* an update that drops the client secret
UpdatedTokensForget(c, a, r, e) ==
    [c EXCEPT !["access_token"] = IF a # None THEN a ELSE @,
              !["refresh_token"] = IF r # None THEN r ELSE @,
              !["token_expires_at"] = IF e # None THEN e ELSE @,
              !["client_secret"] = None]

\* an update that tests the arguments for truth
UpdatedTokensTruthy(c, a, r, e) ==
    [c EXCEPT !["access_token"] = IF Truthy(a) THEN a ELSE @,
              !["refresh_token"] = IF Truthy(r) THEN r ELSE @,
              !["token_expires_at"] = IF Truthy(e) THEN e ELSE @]

\* update_tokens: a field is overwritten when its argument is not None
UpdatedTokens(c, a, r, e) ==
    [c EXCEPT !["access_token"] = IF a # None THEN a ELSE @,
              !["refresh_token"] = IF r # None THEN r ELSE @,
              !["token_expires_at"] = IF e # None THEN e ELSE @]

NoArgs == [access_token |-> None, refresh_token |-> None, token_expires_at |-> None,
           device_name |-> None]

\* again: the call repeats the previous call, name and arguments; raised:
\* the call ended with an exception
InitLast == [op |-> "__init__", args |-> NoArgs, saves |-> 0, outcome |-> None,
             again |-> FALSE, raised |-> FALSE]

Again(op, args) == last.op = op /\ last.args = args

\* CredsManager(...): the constructor creates the configuration directory,
\* a failure of mkdir being logged and dropped, and loads the record
Construct(mkdir_ok) ==
    /\ file' = IF file.state = "nodir" /\ mkdir_ok THEN AbsentFile ELSE file
    /\ creds' = LoadCredentials(file', env)
    /\ last' = InitLast
    /\ UNCHANGED <<env, clientVars>>

\* the configuration directory is removed under the running store
RemoveDirectory ==
    /\ file.state # "nodir"
    /\ file' = NoDirectory
    /\ last' = [InitLast EXCEPT !.op = "rmtree"]
    /\ UNCHANGED <<env, creds, clientVars>>

save_credentials(outcome) ==
    /\ CanWrite(file, outcome)
    /\ file' = FileAfterSave(creds, file, outcome)
    /\ last' = [op |-> "save_credentials", args |-> NoArgs, saves |-> 1,
                outcome |-> outcome, again |-> Again("save_credentials", NoArgs),
                raised |-> SaveRaises(outcome)]
    /\ UNCHANGED <<env, creds, clientVars>>

update_tokens(a, r, e, outcome) ==
    /\ CanWrite(file, outcome)
    /\ creds' = UpdatedTokens(creds, a, r, e)
    /\ file' = FileAfterSave(creds', file, outcome)
    /\ LET args == [NoArgs EXCEPT !.access_token = a, !.refresh_token = r,
                                   !.token_expires_at = e]
       IN last' = [op |-> "update_tokens", args |-> args, saves |-> 1,
                   outcome |-> outcome, again |-> Again("update_tokens", args),
                   raised |-> SaveRaises(outcome)]
    /\ UNCHANGED <<env, clientVars>>

set_device_name(d, outcome) ==
    /\ CanWrite(file, outcome)
    /\ creds' = [creds EXCEPT !["device_name"] = d]
    /\ file' = FileAfterSave(creds', file, outcome)
    /\ LET args == [NoArgs EXCEPT !.device_name = d]
       IN last' = [op |-> "set_device_name", args |-> args, saves |-> 1,
                   outcome |-> outcome, again |-> Again("set_device_name", args),
                   raised |-> SaveRaises(outcome)]
    /\ UNCHANGED <<env, clientVars>>

-----------------------------------------------------------------------------
(* The process after server.py has built spotify_client *)

EnvVars == {"SPOTIFY_CLIENT_ID", "SPOTIFY_CLIENT_SECRET", "SPOTIFY_REDIRECT_URI",
            "SPOTIFY_ACCESS_TOKEN", "SPOTIFY_REFRESH_TOKEN", "SPOTIFY_DEVICE_ID",
            "SPOTIFY_DEVICE_NAME"}

ClientEnv(a, r) ==
    [v \in EnvVars |->
        CASE v = "SPOTIFY_CLIENT_ID" -> "id"
          [] v = "SPOTIFY_CLIENT_SECRET" -> "secret"
          [] v = "SPOTIFY_ACCESS_TOKEN" -> a
          [] v = "SPOTIFY_REFRESH_TOKEN" -> r
          [] OTHER -> None]

\* a call of the tool and action of op with every argument supplied
FullCall(op) ==
    [name |-> ToolName("Spotify",
                       CASE op = "Playback.get" -> "Playback"
                         [] op = "Queue.add" -> "Queue"
                         [] op = "Playlist.add_tracks" -> "Playlist"),
     action |-> CASE op = "Playback.get" -> "get"
                  [] op = "Queue.add" -> "add"
                  [] op = "Playlist.add_tracks" -> "add_tracks",
     arguments |-> [args |-> [k \in ArgNames |->
                                CASE k = "track_id" -> "t1"
                                  [] k = "playlist_id" -> "p1"
                                  [] OTHER -> None],
                    track_ids |-> ListValue(<<"id1", "id2">>)]]

Init ==
    /\ \E a \in {None, "", "at0"}, r \in {None, "rt0"} :
          /\ Truthy(a) \/ Truthy(r)
          /\ env = ClientEnv(a, r)
    /\ creds = LoadCredentials(AbsentFile, env)
    /\ file = DumpedFile(creds)
    /\ last = InitLast
    /\ now = 0
    /\ cache = InitialCache(0)
    /\ sp_auth = InitialSpAuth
    /\ username = None
    /\ issued = 0
    /\ loop = 0
    /\ task = [t \in Tasks |-> IdleTask]
    /\ resp = NoResp

Next ==
    \/ \E t \in Tasks, op \in Ops : Deliver(t, FullCall(op))
    \/ \E t \in Tasks : Begin(t)
    \/ \E t \in Tasks : EnsureUsername(t)
    \/ \E t \in Tasks : Validate(t)
    \/ \E t \in Tasks : Check(t)
    \/ \E t \in Tasks : Send(t)
    \/ \E t \in Tasks : ExchangeOk(t)
    \/ \E t \in Tasks : ExchangeFails(t)
    \/ \E t \in Tasks, o \in Outcomes :
          \E devs \in ListsFor(t, DeviceLists), play \in PlaysFor(t) :
              Receive(t, o, devs, play)
    \/ \E d \in Times : Tick(d)

Spec == Init /\ [][Next]_vars

-----------------------------------------------------------------------------
(* The dispatcher on its own: one invocation at a time, every tool, action *)
(* and argument mapping of the tool surface, with and without a configured *)
(* default device.                                                         *)

DispatchEnv(a, r, d, cid) ==
    [ClientEnv(a, r) EXCEPT !["SPOTIFY_DEVICE_ID"] = d, !["SPOTIFY_CLIENT_ID"] = cid]

DispatchDeviceLists ==
    DeviceLists \cup
    { <<[id |-> "A", is_active |-> FALSE], [id |-> "C", is_active |-> FALSE]>>,
      <<[id |-> "A", is_active |-> FALSE], [id |-> "B", is_active |-> TRUE],
        [id |-> "C", is_active |-> FALSE]>> }

\* the answers of Outcomes, and a connection that fails
DispatchOutcomes == Outcomes \cup {"network"}

ArgsWith(k, v) == [NoArguments EXCEPT !.args[k] = v]

ToolCall(head, rest, action, arguments) ==
    [name |-> ToolName(head, rest), action |-> action, arguments |-> arguments]

TrackIdsValues ==
    {NoTrackIds, ListValue(<<"id1", "id2">>), StrValue(TrackIdsJson),
     StrValue("not-json"), StrValue(NumberJson)}

DispatchCalls ==
    {ToolCall("Unknown", "", None, NoArguments),
     ToolCall("Spotify", "Other", None, NoArguments)}
    \cup {ToolCall("Spotify", "Search", None, ArgsWith("query", q)) :
                q \in {"song", "at0"}}
    \cup {ToolCall("Spotify", "Playback", a, NoArguments) :
                a \in {None, "bogus", "get", "pause"}}
    \cup {ToolCall("Spotify", "Playback", "start", ArgsWith("spotify_uri", u)) :
                u \in {None, "", "spotify:track:x", "spotify:album:x"}}
    \cup {ToolCall("Spotify", "Playback", "skip", ArgsWith("num_skips", n)) :
                n \in {None, "0", "2"}}
    \cup {ToolCall("Spotify", "GetInfo", None, ArgsWith("item_uri", u)) :
                u \in {None, "spotify:track:x"}}
    \cup {ToolCall("Spotify", "Queue", a, NoArguments) : a \in {None, "get", "bogus"}}
    \cup {ToolCall("Spotify", "Queue", "add", ArgsWith("track_id", v)) :
                v \in {None, "", "t1"}}
    \cup {ToolCall("Spotify", "Playlist", a, NoArguments) : a \in {None, "get", "bogus"}}
    \cup {ToolCall("Spotify", "Playlist", a, ArgsWith("playlist_id", v)) :
                a \in {"get_tracks"}, v \in {None, "p1"}}
    \cup {ToolCall("Spotify", "Playlist", a,
                    [ArgsWith("playlist_id", v) EXCEPT !.track_ids = ids]) :
                a \in {"add_tracks", "remove_tracks"}, v \in {None, "p1"},
                ids \in TrackIdsValues}
    \cup {ToolCall("Spotify", "Playlist", "change_details",
                    [ArgsWith("playlist_id", v) EXCEPT !.args["name"] = n]) :
                v \in {None, "p1"}, n \in {None, "n"}}
    \cup {ToolCall("Spotify", "Playlist", "create", ArgsWith("name", n)) :
                n \in {None, "n"}}

InitDispatch ==
    /\ \E a \in {None, "at0"}, r \in {None, "rt0"}, d \in {None, "Kitchen"},
          cid \in {None, "id"} :
          /\ Truthy(a) \/ Truthy(r)
          /\ cid = None => d = None
          /\ env = DispatchEnv(a, r, d, cid)
    /\ creds = LoadCredentials(AbsentFile, env)
    /\ file = DumpedFile(creds)
    /\ last = InitLast
    /\ now = 0
    /\ cache = InitialCache(0)
    /\ sp_auth = InitialSpAuth
    /\ username = None
    /\ issued = 0
    /\ loop = InitialLoop
    /\ task = [t \in Tasks |-> IdleTask]
    /\ resp = NoResp

NextDispatch ==
    \/ \E call \in DispatchCalls : Deliver(1, call)
    \/ Begin(1)
    \/ EnsureUsername(1)
    \/ Validate(1)
    \/ Check(1)
    \/ Send(1)
    \/ ExchangeOk(1)
    \/ ExchangeFails(1)
    \/ \E o \in DispatchOutcomes :
          \E devs \in ListsFor(1, DispatchDeviceLists), play \in PlaysFor(1) :
              Receive(1, o, devs, play)

SpecDispatch == InitDispatch /\ [][NextDispatch]_vars

-----------------------------------------------------------------------------
(* The credential store on its own: every environment and file it can be   *)
(* constructed over, and its operations in any order.                      *)

EnvValues == {None, "", "env"}

\* identity variables share one value, token variables another
StoreEnv(x, y) ==
    [v \in EnvVars |->
        IF v \in {"SPOTIFY_ACCESS_TOKEN", "SPOTIFY_REFRESH_TOKEN"} THEN y ELSE x]

\* a file holds an expiry exactly when it holds an access token
StoreFiles ==
    {AbsentFile, CorruptFile, TruncatedFile} \cup
    { [state |-> "json",
       body |-> [k \in Keys |->
                   CASE k = "access_token" -> a
                     [] k = "token_expires_at" -> IF a = "null" THEN "null" ELSE "100"
                     [] k = "refresh_token" -> r
                     [] k = "device_name" -> d
                     [] OTHER -> i]] :
        i \in {"null", "\"file\""}, a \in {"null", "\"file\""},
        r \in {"null", "\"file\""}, d \in {"null", "\"file\""} }

InitStore ==
    /\ \E x \in {None, "env"}, y \in EnvValues : env = StoreEnv(x, y)
    /\ file \in StoreFiles
    /\ creds = LoadCredentials(file, env)
    /\ last = InitLast
    /\ now = 0
    /\ cache = InitialCache(0)
    /\ sp_auth = InitialSpAuth
    /\ username = None
    /\ issued = 0
    /\ loop = 0
    /\ task = [t \in Tasks |-> IdleTask]
    /\ resp = NoResp

NextStore ==
    \/ \E mkdir_ok \in BOOLEAN : Construct(mkdir_ok)
    \/ RemoveDirectory
    \/ \E o \in WriteOutcomes : save_credentials(o)
    \/ \E a \in {None, "", "tok2"}, r \in {None, "ref2"}, e \in {None, "200"},
          o \in WriteOutcomes : update_tokens(a, r, e, o)
    \/ \E o \in WriteOutcomes : set_device_name("speaker", o)

SpecStore == InitStore /\ [][NextStore]_vars

-----------------------------------------------------------------------------
(* Token supplier and dispatch: properties checked under Spec *)

OthersInFlight(t) == \E u \in Tasks : u # t /\ task[u].pc # "idle"

\* C1: when two or more invocations are in flight together over an expired
\* token, at most one refresh exchange is under way and no request of any of
\* them carries the stale token.
C1_OneRefreshAllFresh ==
    /\ Cardinality({t \in Tasks : task[t].pc = "exchange"}) <= 1
    /\ \A t \in Tasks :
          (HasAuthManager /\ task[t].pc = "inflight" /\ OthersInFlight(t))
              => ~Stale(task[t].tok)

\* C2: while one invocation is blocked in a remote call, a second invocation
\* that has been delivered can begin without waiting for the first to return.
C2_RemoteCallsRunConcurrently ==
    \A t \in Tasks, u \in Tasks :
        (t # u /\ task[t].pc = "inflight" /\ task[u].pc = "pending")
            => ENABLED Begin(u)

\* C3: with a refresh token, no outbound request is ever sent carrying an
\* empty access token or one at or past its cached expiry.
C3_NoStaleOutboundCall ==
    HasAuthManager => \A t \in Tasks : task[t].pc = "inflight" => ~Stale(task[t].tok)

\* C4: once a refresh exchange has succeeded, the credential store and the
\* durable file hold the refreshed access token.
C4_RefreshPersisted ==
    cache.access_token # InitialAccessToken
        => /\ creds["access_token"] = cache.access_token
           /\ FileGet(file, "access_token") = cache.access_token

\* the texts a caller also receives for a success or for an unrelated fault
GenericTexts == {SuccessText(op) : op \in Ops} \cup {SpotifyErrorText, UnexpectedErrorText}

\* C5: an invocation whose refresh exchange failed ends with a response that
\* is distinguishable as "reauthorization required".
C5_RefreshFailureIsReauthorization ==
    resp.cause = "refresh_failed" => resp.text \notin GenericTexts

\* C6: with an access token and no refresh token, no refresh exchange is
\* issued, every request carries the supplied token, and an invocation whose
\* request was rejected as unauthorized reports the failure.
C6_StaticTokenUnrefreshedAndReported ==
    DirectToken =>
        /\ issued = 0
        /\ sp_auth = ACCESS_TOKEN
        /\ \A t \in Tasks : /\ task[t].pc # "exchange"
                            /\ task[t].pc = "inflight" => task[t].tok = ACCESS_TOKEN
        /\ resp.cause = "unauthorized" => resp.text = SpotifyErrorText

\* the invocation has passed the authentication part of validate
PassedGate(t) == task[t].pc = "run" /\ task[t].todo # <<>> /\ Step(t) = "devices"

\* C7: with a refresh token, the access token the process started with is
\* accepted by a guarded call, or carried by a request, only when one was
\* supplied and only before AssumedValidFor seconds have passed since
\* start-up; from then on, and from the start when none was supplied, a
\* guarded call refreshes.
C7_GraceWindow ==
    HasAuthManager =>
        \A t \in Tasks :
            ((PassedGate(t) /\ cache.access_token = InitialAccessToken)
              \/ (task[t].pc = "inflight" /\ task[t].tok = InitialAccessToken))
                => (Truthy(ACCESS_TOKEN) /\ now < AssumedValidFor)

\* a guarded call at the end of the grace period is exchanging the token
C7_Witness ==
    \E t \in Tasks :
        /\ task[t].pc = "exchange" /\ task[t].via = "auth_refresh"
        /\ Truthy(ACCESS_TOKEN) /\ cache.access_token = ACCESS_TOKEN
        /\ now = AssumedValidFor

-----------------------------------------------------------------------------
(* Credential store: properties checked under SpecStore *)

HasEnvVar(k) == k \in DOMAIN EnvMapping

\* C8 as stated: a non-null field of the file wins over the environment, and
\* with no file every field is the value of its environment variable.
C8_FileWinsElseEnvValue ==
    last.op = "__init__" =>
        \A k \in Keys :
            /\ (file.state = "json" /\ file.body[k] # "null")
                    => creds[k] = JsonLoads(file.body[k])
            /\ (file.state = "absent" /\ HasEnvVar(k))
                    => creds[k] = env[EnvMapping[k]]

\* C8 amended: with no file, a field is the value of its environment
\* variable when that is set and not empty, and None otherwise (always None
\* for token_expires_at, which has no variable).
C8_FileWinsElseNonEmptyEnv ==
    last.op = "__init__" =>
        \A k \in Keys :
            /\ (file.state = "json" /\ file.body[k] # "null")
                    => creds[k] = JsonLoads(file.body[k])
            /\ file.state = "absent"
                    => creds[k] = IF HasEnvVar(k) /\ env[EnvMapping[k]] \notin {None, ""}
                                  THEN env[EnvMapping[k]]
                                  ELSE None

\* no file, one variable set and another set to the empty string
C8_Witness ==
    /\ last.op = "__init__" /\ file.state = "absent"
    /\ env["SPOTIFY_CLIENT_ID"] = "env" /\ creds["client_id"] = "env"
    /\ env["SPOTIFY_ACCESS_TOKEN"] = "" /\ creds["access_token"] = None

NoEnv == [v \in EnvVars |-> None]

\* C9: after a save that succeeded, loading the file with no environment
\* variable set gives back the record, field by field.
C9_RoundTrip ==
    last.outcome = "ok" => LoadCredentials(file, NoEnv) = creds

\* a record with a None field, an empty string and a number has been saved
C9_Witness ==
    /\ last.op = "save_credentials" /\ last.outcome = "ok"
    /\ creds["access_token"] = "" /\ creds["token_expires_at"] = "200"
    /\ creds["device_name"] = None /\ creds["refresh_token"] = "file"

TokenKeys == {"access_token", "refresh_token", "token_expires_at"}

\* C10: update_tokens overwrites exactly the fields whose argument is not
\* None with the argument, leaves every other field as it was, and saves the
\* updated record once.
C10_PartialUpdate ==
    [][last'.op = "update_tokens" =>
          /\ \A k \in Keys :
                creds'[k] = IF k \in TokenKeys /\ last'.args[k] # None
                            THEN last'.args[k]
                            ELSE creds[k]
          /\ last'.saves = 1
          /\ file' = FileAfterSave(creds', file, last'.outcome)]_vars

\* update_tokens("", None, 200) has overwritten two fields and kept the third
C10_Witness ==
    /\ last.op = "update_tokens"
    /\ last.args.access_token = "" /\ creds["access_token"] = ""
    /\ last.args.token_expires_at = "200" /\ creds["token_expires_at"] = "200"
    /\ last.args.refresh_token = None /\ creds["refresh_token"] = "file"

\* C11: a call of update_tokens that repeats the previous call, argument for
\* argument, leaves the record as the first call left it, still writes the
\* file once, and leaves the file as the first call left it when both
\* writes succeeded.
C11_UpdateIdempotent ==
    [][(last.op = "update_tokens" /\ last'.op = "update_tokens"
            /\ last'.args = last.args) =>
          /\ creds' = creds
          /\ last'.saves = 1
          /\ file' = FileAfterSave(creds', file, last'.outcome)
          /\ (last.outcome = "ok" /\ last'.outcome = "ok") => file' = file]_vars

\* update_tokens("tok2", None, None) has been called twice in a row over a
\* record with another refresh token, and the second write succeeded
C11_Witness ==
    /\ last.op = "update_tokens" /\ last.again /\ last.outcome = "ok"
    /\ last.args.access_token = "tok2" /\ last.args.refresh_token = None
    /\ creds["access_token"] = "tok2" /\ creds["refresh_token"] = "file"
    /\ file = DumpedFile(creds)

WriteFailed == last.outcome \in {"open_fails", "write_fails"}

\* C12: when the write of a save fails, whether save_credentials was called
\* directly, by update_tokens or by set_device_name, the call returns without
\* an exception and the record in memory holds every value the call supplied.
C12_WriteFailureSwallowed ==
    (WriteFailed /\ last.op \in {"save_credentials", "update_tokens", "set_device_name"})
        => /\ ~last.raised
           /\ \A k \in DOMAIN last.args : last.args[k] # None => creds[k] = last.args[k]

\* update_tokens("tok2", ...) met a write that failed after open()
C12_Witness ==
    /\ last.op = "update_tokens" /\ last.outcome = "write_fails"
    /\ last.args.access_token = "tok2" /\ creds["access_token"] = "tok2"
    /\ file = CorruptFile

\* C13: when update_tokens or set_device_name returns and its write
\* succeeded, the file holds the value of the record in every field.
C13_FileEqualsRecord ==
    (last.op \in {"update_tokens", "set_device_name"} /\ last.outcome = "ok")
        => /\ file.state = "json"
           /\ \A k \in Keys : FileGet(file, k) = creds[k]

\* set_device_name("speaker") has been written over a file with another name
C13_Witness ==
    /\ last.op = "set_device_name" /\ last.outcome = "ok"
    /\ creds["device_name"] = "speaker" /\ FileGet(file, "device_name") = "speaker"
    /\ creds["access_token"] = "file"

-----------------------------------------------------------------------------
(* Device resolution and dispatch: properties checked under SpecDispatch *)

\* a playback request is in flight after validate decided the device keyword
ResolvedRequest(t) ==
    /\ task[t].pc = "inflight" /\ Step(t) \in PlaybackRequests
    /\ task[t].seen # <<>>

C16_NoDeviceDistinct ==
    resp.cause = "no_device"
        => resp.text \notin {FailureText("network"), UnexpectedErrorText, SpotifyErrorText}

\* C17: handle_call_tool never returns None in place of a list of one block.
C17_AlwaysOneBlock == resp.shape # "none"

\* C18: no tool call ends with an exception raised to the transport.
C18_NoFaultEscapes == resp.shape # "raised"

\* the arguments the tool surface requires of an action
RequiredArgs(call) ==
    CASE call.name.rest = "Queue" /\ call.action = "add" -> {"track_id"}
      [] call.name.rest = "Playlist" /\ call.action = "get_tracks" -> {"playlist_id"}
      [] call.name.rest = "Playlist" /\ call.action \in {"add_tracks", "remove_tracks"} ->
            {"playlist_id", "track_ids"}
      [] call.name.rest = "Playlist" /\ call.action = "change_details" -> {"playlist_id"}
      [] call.name.rest = "Playlist" /\ call.action = "create" -> {"name"}
      [] OTHER -> {}

Absent(call, f) ==
    IF f = "track_ids"
    THEN call.arguments.track_ids.kind = "none"
    ELSE call.arguments.args[f] = None

MissingArgs(call) == {f \in RequiredArgs(call) : Absent(call, f)}

\* the argument and action names a text of the dispatcher spells out
Mentions(text) ==
    CASE text = "track_id is required for add action" -> {"track_id", "add"}
      [] text = "playlist_id is required for get_tracks action." ->
            {"playlist_id", "get_tracks"}
      [] text = "playlist_id is required for change_details action." ->
            {"playlist_id", "change_details"}
      [] text = "name is required for create action." -> {"name", "create"}
      [] text = "At least one of name, description, public, or collaborative is required." ->
            {"name", "description", "public", "collaborative"}
      [] text = "Error: track_ids must be a list or a valid JSON array." -> {"track_ids"}
      [] OTHER -> {}

\* C19: a call that lacks a required argument of its action never has a
\* request or a refresh exchange under way, and the handler answers it at
\* once with a text that names a missing argument and the action.
C19_MissingArgumentShortCircuits ==
    \A t \in Tasks :
        (task[t].pc # "idle" /\ task[t].call.name.head = "Spotify"
              /\ MissingArgs(task[t].call) # {})
            => /\ task[t].pc \notin {"inflight", "exchange"}
               /\ Route(task[t].call).kind = "text"
               /\ \E f \in MissingArgs(task[t].call) :
                     {f, task[t].call.action} \subseteq Mentions(Route(task[t].call).text)

StartWithoutUri(t) ==
    /\ task[t].op = "Playback.start"
    /\ ~Truthy(task[t].call.arguments.args["spotify_uri"])

\* C20: a Playback start with no URI that finds a track playing sends no
\* start_playback request, and is answered with the success text in one
\* block.
C20_StartAlreadyPlayingNoOp ==
    /\ \A t \in Tasks :
          (StartWithoutUri(t) /\ task[t].playing = "playing")
              => ~(task[t].pc = "inflight" /\ Step(t) = "start_playback")
    /\ resp.cause = "already_playing"
          => resp.text = SuccessText("Playback.start") /\ resp.shape = "list"

\* a start with no URI found a track playing and has returned
C20_Witness ==
    /\ resp.cause = "already_playing" /\ resp.text = "Playback starting."
    /\ \A t \in Tasks : task[t].pc = "idle"

PlaylistTrackCall(call) ==
    /\ call.name.head = "Spotify" /\ call.name.rest = "Playlist"
    /\ call.action \in {"add_tracks", "remove_tracks"}

\* a track_ids value that is a list, or a string holding a JSON array
IsOrParsesToList(v) ==
    \/ v.kind = "list"
    \/ v.kind = "str" /\ JsonDecodes(v.text) /\ JsonLoadsTrackIds(v.text).kind = "list"

\* C22: an add_tracks or remove_tracks call whose track_ids is given, is not
\* a list and does not parse into a list never has a request or a refresh
\* exchange under way, and the handler answers it at once with the
\* track_ids error text.
C22_BadTrackIdsRejected ==
    \A t \in Tasks :
        (task[t].pc # "idle" /\ PlaylistTrackCall(task[t].call)
              /\ task[t].call.arguments.track_ids.kind # "none"
              /\ ~IsOrParsesToList(task[t].call.arguments.track_ids))
            => /\ task[t].pc \notin {"inflight", "exchange"}
               /\ Route(task[t].call).kind = "text"
               /\ Route(task[t].call).cause = "bad_track_ids"

\* the call with track_ids replaced by the list
WithList(call, items) == [call EXCEPT !.arguments.track_ids = ListValue(items)]

\* C23: an add_tracks or remove_tracks call whose track_ids is a string
\* holding a JSON array is routed as the call with the decoded list is, and
\* the Client method runs with the list, not the string.
C23_JsonTrackIdsParsed ==
    \A t \in Tasks :
        (task[t].pc # "idle" /\ PlaylistTrackCall(task[t].call)
              /\ task[t].call.arguments.track_ids = StrValue(TrackIdsJson))
            => /\ Route(task[t].call) = Route(WithList(task[t].call, <<"id1", "id2">>))
               /\ task[t].pc # "pending"
                     => task[t].kwargs.track_ids = ListValue(<<"id1", "id2">>)

\* the add-items request of a call that gave track_ids as a JSON string is
\* in flight with the two-element list
C23_Witness ==
    \E t \in Tasks :
        /\ task[t].pc = "inflight" /\ Step(t) = "playlist_add_items"
        /\ task[t].call.arguments.track_ids = StrValue(TrackIdsJson)
        /\ task[t].kwargs.track_ids = ListValue(<<"id1", "id2">>)

\* C24: every request that names a target device is sent after validate has
\* fetched the device list in the same invocation.
C24_PlaybackResolvesDevice ==
    \A t \in Tasks :
        (task[t].pc = "inflight" /\ Step(t) \in PlaybackRequests)
            => task[t].seen # <<>>

\* C26: an invocation whose request was answered with a non-success status
\* is answered with the Spotify error text.
C26_RemoteErrorReported ==
    resp.cause \in {"unauthorized", "error"} => resp.text = SpotifyErrorText

\* C28: when no invocation is running, the client holds no value obtained
\* from the remote API other than the cached token.
C28_NothingRemoteKept ==
    (\A t \in Tasks : task[t].pc \in {"idle", "pending"})
        => /\ username = None
           /\ \A t \in Tasks : task[t].seen = <<>> /\ task[t].device = None

\* C25: when client_id or client_secret is missing the process never gets to
\* serve: no tool call is delivered and no request is sent.
C25_MissingIdentityStopsStart ==
    MissingIdentity
        => /\ loop = NoLoop
           /\ \A t \in Tasks : task[t].pc = "idle"

\* the values of the entry handle_call_tool logs on entry: the tool name and
\* the arguments as they were given
LoggedValues(call) ==
    {call.name.head, call.name.rest, call.action}
    \cup {call.arguments.args[k] : k \in ArgNames}
    \cup {call.arguments.track_ids.text}

TokenValues == {ACCESS_TOKEN, REFRESH_TOKEN, cache.access_token} \ {None, ""}

\* C29: the entry the dispatcher logs for a delivered call holds no access
\* token and no refresh token.
C29_NoTokenInLog ==
    \A t \in Tasks :
        task[t].pc # "idle" => LoggedValues(task[t].call) \cap TokenValues = {}

-----------------------------------------------------------------------------
(* Credential store: further properties checked under SpecStore *)

IdentityKeys == {"client_id", "client_secret", "redirect_uri"}
StoreCalls == {"save_credentials", "update_tokens", "set_device_name"}

\* C27: no call of update_tokens, set_device_name or save_credentials
\* changes client_id, client_secret or redirect_uri.
C27_IdentityImmutable ==
    [][last'.op \in StoreCalls => \A k \in IdentityKeys : creds'[k] = creds[k]]_vars

\* tokens have been updated in a record whose identity came from the
\* environment
C27_Witness ==
    /\ last.op = "update_tokens" /\ last.args.access_token = "tok2"
    /\ creds["access_token"] = "tok2"
    /\ \A k \in IdentityKeys : creds[k] = "env"

\* C30: after a save, whatever called it, the configuration directory
\* exists.
C30_SaveCreatesDirectory ==
    last.op \in StoreCalls => file.state # "nodir"

\* the value the environment alone gives a field: that of its variable when
\* the variable is set and not empty
EnvOnly(k) ==
    IF k \in DOMAIN EnvMapping /\ env[EnvMapping[k]] \notin {None, ""}
    THEN env[EnvMapping[k]]
    ELSE None

-----------------------------------------------------------------------------
(* Dispatcher and Client: further properties checked under SpecDispatch *)

\* C32: with no default configured, a playback request sent after a
\* non-empty device list with no active device was fetched names the first
\* device of that list.
C32_FirstDeviceWhenNoneActive ==
    \A t \in Tasks :
        (ResolvedRequest(t) /\ ~AnyActive(task[t].seen) /\ ~Truthy(DEFAULT_DEVICE_ID))
            => DeviceId(t) = task[t].seen[1].id

\* a request in flight that names A after the inactive devices A and C were
\* listed, no default being configured
C32_Witness ==
    \E t \in Tasks :
        /\ ResolvedRequest(t) /\ DEFAULT_DEVICE_ID = None
        /\ Len(task[t].seen) = 2 /\ ~AnyActive(task[t].seen)
        /\ task[t].seen[2].id = "C" /\ DeviceId(t) = "A"

IsSkipCall(call) ==
    call.name = ToolName("Spotify", "Playback") /\ call.action = "skip"

\* the number of skips a call asks for, one when it names none
SkipsAsked(call) ==
    LET v == call.arguments.args["num_skips"]
    IN IF v = None THEN 1 ELSE IF v = "0" THEN 0 ELSE IF v = "1" THEN 1 ELSE 2

Range(f) == {f[i] : i \in DOMAIN f}

IsPrefix(a, b) == Len(a) <= Len(b) /\ a = SubSeq(b, 1, Len(a))

\* C33: when a skip call asking for n skips returns, it has sent next-track
\* requests only, at most n of them; it returns the success text exactly when
\* n were sent and all were answered with success, and an error text
\* otherwise, with every request before the failed one applied and none sent
\* after it; for n = 0 it has sent nothing and returns the success text.
C33_SkipStopsAtFirstFailure ==
    [][\A t \in Tasks :
         (IsSkipCall(task[t].call) /\ task[t].pc # "idle" /\ task'[t].pc = "idle")
            => LET n == SkipsAsked(task[t].call)
                   sent == task[t].sent
                   before == task[t].applied
               IN /\ Len(sent) <= n
                  /\ \A i \in 1..Len(sent) : sent[i] = "next_track"
                  /\ IsPrefix(before, sent) /\ Len(before) >= Len(sent) - 1
                  /\ IF resp'.text = "Skipped to next track."
                     THEN Len(sent) = n /\ resp'.cause = None
                     ELSE /\ resp'.text \in {SpotifyErrorText, UnexpectedErrorText}
                          /\ Len(before) < n
                          /\ resp'.cause # None
                  /\ n = 0 => sent = <<>> /\ resp'.text = "Skipped to next track."]_vars

\* the second of two skips asked for is in flight, the first applied
C33_Witness ==
    \E t \in Tasks :
        /\ IsSkipCall(task[t].call) /\ SkipsAsked(task[t].call) = 2
        /\ task[t].pc = "inflight"
        /\ task[t].sent = <<"next_track", "next_track">>
        /\ task[t].applied = <<"next_track">>

\* the number of times a request occurs among those sent
Count(sent, request) == Cardinality({i \in 1..Len(sent) : sent[i] = request})

\* C34: when a Playback pause returns, it has sent at most one pause request,
\* and one only after the playback state reported a playing track; a call
\* that ends on a playback state reporting nothing playing has sent none; a
\* call that met no failure is answered 'Playback paused.' either way.
C34_PauseOnlyWhenPlaying ==
    [][\A t \in Tasks :
         (task[t].op = "Playback.pause" /\ task'[t].pc = "idle")
            => LET pauses == Count(task[t].sent, "pause_playback")
               IN /\ pauses <= 1
                  /\ pauses = 1 => /\ task[t].playing = "playing"
                                   /\ "current_playback" \in Range(task[t].applied)
                  /\ (Step(t) = "current_playback" /\ resp'.cause = None)
                        => pauses = 0
                  /\ resp'.cause = None => resp'.text = "Playback paused."]_vars

\* a pause request is in flight after the playback state reported a playing
\* track
C34_Witness ==
    \E t \in Tasks :
        /\ task[t].op = "Playback.pause" /\ task[t].pc = "inflight"
        /\ Step(t) = "pause_playback" /\ task[t].playing = "playing"
        /\ Count(task[t].sent, "pause_playback") = 1

\* C35: a start_playback request sets at most one of uris and context_uri:
\* a track URI goes as the one-element uris, any other non-empty URI as
\* context_uri, and a resume, a start with no URI, sets neither.
C35_OneOfUrisAndContext ==
    \A t \in Tasks :
        (task[t].pc = "inflight" /\ Step(t) = "start_playback")
            => LET u == task[t].kwargs.args["spotify_uri"]
                   body == StartPlaybackBody(u)
               IN /\ body.uris = None \/ body.context_uri = None
                  /\ (Truthy(u) /\ IsTrackUri(u))
                        => body.uris = <<u>> /\ body.context_uri = None
                  /\ (Truthy(u) /\ ~IsTrackUri(u))
                        => body.context_uri = u /\ body.uris = None
                  /\ ~Truthy(u) => body.uris = None /\ body.context_uri = None

QueueActions == {"add", "get"}
PlaylistActions == {"get", "get_tracks", "add_tracks", "remove_tracks",
                    "change_details", "create"}

\* a Queue or Playlist call whose action is absent or not one the tool has
UnknownAction(call) ==
    /\ call.name.head = "Spotify"
    /\ \/ call.name.rest = "Queue" /\ call.action \notin QueueActions
       \/ call.name.rest = "Playlist" /\ call.action \notin PlaylistActions

\* the text says "action: " followed by the action as it was given
NamesAction(text, action) ==
    \E tool \in {"queue", "playlist"} :
        LET shown == IF action = None THEN "None" ELSE action
            head == "Unknown " \o tool \o " action: "
        IN \E tail \in {". Supported actions are: add, remove, and get.",
                         ".Supported actions are: get, get_tracks, add_tracks, remove_tracks, change_details, create."} :
              text = head \o shown \o tail

\* C37: a Queue or Playlist call with an absent or unknown action is never
\* past the handler's entry; the handler answers it in one step with a text
\* that names the action, and that step sends nothing and leaves the client,
\* the token cache and the credential store as they were.
C37_UnknownActionAnswered ==
    [][\A t \in Tasks :
         (task[t].pc # "idle" /\ UnknownAction(task[t].call))
            => /\ task[t].pc = "pending"
               /\ task'[t] # task[t]
                     => /\ task'[t].pc = "idle"
                        /\ resp'.shape = "list"
                        /\ NamesAction(resp'.text, task[t].call.action)
                        /\ UNCHANGED <<env, credsVars, now, cache, sp_auth,
                                       username, issued>>]_vars

\* a Queue call with the action "bogus" has been answered, no username
\* having been fetched
C37_Witness ==
    /\ resp.cause = "unknown_action"
    /\ resp.text = "Unknown queue action: bogus. Supported actions are: add, remove, and get."
    /\ username = None
    /\ \A t \in Tasks : task[t].pc = "idle"

====
